---- MODULE Spec2Model ----
(***************************************************************************)
(* Port detection pipeline: per-vessel stop segmentation (fan-out over a   *)
(* process pool), DBSCAN clustering of the stop centroids, per-cluster     *)
(* summary and convex-hull polygons (second fan-out), left merge, export.  *)
(*                                                                         *)
(* Time is counted in whole units, positions are latitudes on one meridian *)
(* (every ping has the same longitude), so that the haversine distance of  *)
(* two points is the absolute difference of their latitudes.  A mean is    *)
(* kept exactly, as a fraction in lowest terms.  The columns "Ship type"   *)
(* and "Navigational status" and the averages derived from the columns     *)
(* kept are carried by no claim and are left out.                          *)
(***************************************************************************)
EXTENDS Integers, Sequences, FiniteSets, TLC

\* ------------------------------------------------------------------ bounds
NumVessels == 2
MaxPings == 2
MaxLat == 2
MaxMinSamples == 2
MaxMinDuration == 1
MaxGap == 1
NumProcesses == 2
SegMaxPings == 4
SegMaxTime == 3
MaxStops == 4
PolyMaxStops == 2
MaxLabel == 1

\* A timestamp that pd.to_datetime(..., errors="coerce") could not parse.
NaT == -1

\* ------------------------------------------------------------- sequences
RECURSIVE SeqSum(_)
SeqSum(s) == IF s = <<>> THEN 0 ELSE Head(s) + SeqSum(Tail(s))

RECURSIVE SeqsUpTo(_, _)
SeqsUpTo(S, n) ==
    IF n = 0 THEN {<<>>}
    ELSE LET shorter == SeqsUpTo(S, n - 1)
         IN  shorter \cup {Append(s, x) : s \in {t \in shorter : Len(t) = n - 1}, x \in S}

Range(s) == {s[i] : i \in 1..Len(s)}

SetMin(S) == CHOOSE x \in S : \A y \in S : x <= y
SetMax(S) == CHOOSE x \in S : \A y \in S : x >= y

RECURSIVE Gcd(_, _)
Gcd(a, b) == IF b = 0 THEN a ELSE Gcd(b, a % b)

\* Series.mean() of whole numbers, exactly: sum / count in lowest terms.
Mean(s) ==
    LET g == Gcd(SeqSum(s), Len(s))
    IN  [num |-> SeqSum(s) \div g, den |-> Len(s) \div g]

\* --------------------------------------------- process_single_mmsi_stops
\* sort_values(by="Timestamp"): ascending, missing timestamps last.
TsBefore(a, b) == a /= NaT /\ (b = NaT \/ a < b)

RECURSIVE InsertSorted(_, _)
InsertSorted(sorted, p) ==
    IF sorted = <<>> THEN <<p>>
    ELSE IF TsBefore(p.Timestamp, Head(sorted).Timestamp)
         THEN <<p>> \o sorted
         ELSE <<Head(sorted)>> \o InsertSorted(Tail(sorted), p)

RECURSIVE SortByTimestamp(_)
SortByTimestamp(rows) ==
    IF rows = <<>> THEN <<>>
    ELSE InsertSorted(SortByTimestamp(SubSeq(rows, 1, Len(rows) - 1)), rows[Len(rows)])

\* ship_data["Timestamp"].diff(): missing for the first row and whenever one
\* of the two timestamps is missing.
TimeDiff(sorted, i) ==
    IF i = 1 \/ sorted[i].Timestamp = NaT \/ sorted[i - 1].Timestamp = NaT
    THEN NaT
    ELSE sorted[i].Timestamp - sorted[i - 1].Timestamp

\* time_diff.isna() | (time_diff > max_time_diff_within_stop_threshold)
StartsSegment(sorted, i, maxGap) ==
    \/ TimeDiff(sorted, i) = NaT
    \/ TimeDiff(sorted, i) > maxGap

\* (...).cumsum(): the segment id of row i is the number of segment starts
\* among rows 1..i.
StopSegmentId(sorted, i, maxGap) ==
    Cardinality({j \in 1..i : StartsSegment(sorted, j, maxGap)})

\* ship_data after lines 24-31: the sorted rows with their stop_segment_id.
WithSegmentIds(rows, maxGap) ==
    LET sorted == SortByTimestamp(rows)
    IN  [i \in 1..Len(sorted) |->
            [row |-> sorted[i].row,
             Timestamp |-> sorted[i].Timestamp,
             Latitude |-> sorted[i].Latitude,
             stop_segment_id |-> StopSegmentId(sorted, i, maxGap)]]

\* groupby("stop_segment_id"): the rows of one segment, in order.
SegmentRows(shipData, seg) ==
    SelectSeq(shipData, LAMBDA r : r.stop_segment_id = seg)

SegmentIdsOf(shipData) == {shipData[i].stop_segment_id : i \in 1..Len(shipData)}

\* Series.min() / Series.max() skip missing values; all missing gives NaT.
ValidTimes(segRows) == {segRows[i].Timestamp : i \in 1..Len(segRows)} \ {NaT}
StartTime(segRows) == IF ValidTimes(segRows) = {} THEN NaT ELSE SetMin(ValidTimes(segRows))
EndTime(segRows) == IF ValidTimes(segRows) = {} THEN NaT ELSE SetMax(ValidTimes(segRows))

\* timedelta(0) if len(segment_data) == 1 else end_time - start_time
Duration(segRows) ==
    IF Len(segRows) = 1 THEN 0 ELSE EndTime(segRows) - StartTime(segRows)

\* duration >= min_stop_duration_threshold
KeepSegment(segRows, minDuration) == Duration(segRows) >= minDuration

\* The dict appended to processed_stops_list (lines 70-82).
StopEvent(mmsi, segRows) ==
    [MMSI |-> mmsi,
     stop_latitude |-> Mean([i \in 1..Len(segRows) |-> segRows[i].Latitude]),
     num_pings_in_stop |-> Len(segRows),
     stop_start_time |-> StartTime(segRows),
     stop_end_time |-> EndTime(segRows),
     stop_duration_hours |-> Duration(segRows)]

\* The loop of lines 35-82 over the segments seg..last, in segment order.
RECURSIVE StopsFrom(_, _, _, _, _)
StopsFrom(mmsi, shipData, seg, last, minDuration) ==
    IF seg > last THEN <<>>
    ELSE LET segRows == SegmentRows(shipData, seg)
             rest == StopsFrom(mmsi, shipData, seg + 1, last, minDuration)
         IN  IF segRows /= <<>> /\ KeepSegment(segRows, minDuration)
             THEN <<StopEvent(mmsi, segRows)>> \o rest
             ELSE rest

\* process_single_mmsi_stops(args_tuple): the stop table of one vessel.
ProcessSingleMmsiStops(mmsi, rows, minDuration, maxGap) ==
    IF rows = <<>> THEN <<>>
    ELSE LET shipData == WithSegmentIds(rows, maxGap)
         IN  StopsFrom(mmsi, shipData, 1, SetMax(SegmentIdsOf(shipData)), minDuration)

\* ------------------------------------------------------------ data frames
\* A stop table: its rows, and the "cluster" column once it has been added.
EmptyFrame == [rows |-> <<>>, cluster |-> <<>>, has_cluster |-> FALSE]
Frame(rows) == [rows |-> rows, cluster |-> <<>>, has_cluster |-> FALSE]
\* stops_df["cluster"] = labels
WithCluster(frame, labels) ==
    [rows |-> frame.rows, cluster |-> labels, has_cluster |-> TRUE]

RECURSIVE Concat(_)
Concat(frames) == IF frames = <<>> THEN <<>> ELSE Head(frames) \o Concat(Tail(frames))

\* The elements of a set of numbers in ascending order (groupby sorts its keys).
RECURSIVE Ascending(_)
Ascending(S) == IF S = {} THEN <<>> ELSE <<SetMin(S)>> \o Ascending(S \ {SetMin(S)})

\* ------------------------------------------- get_significant_stops_parallel
RequiredColumns ==
    {"MMSI", "Timestamp", "Latitude", "Longitude", "Ship type", "Navigational status"}

\* A task list that also has the vessel ids without pings.
StopTasks_AllVessels(table) == Ascending(DOMAIN table)

\* lines 118-127: one task per vessel id with a non-empty group, in key order.
StopTasks(table) == Ascending({v \in DOMAIN table : table[v] /= <<>>})

\* ------------------------------------------------------ cluster_stops_dbscan
NOISE == -1
FAILED == -2
\* EPS_KM: the neighbourhood radius, in the unit the latitudes are counted in.
EPS_KM == 1

\* haversine distance of two stops on the same meridian <= eps
WithinEps(a, b, eps) ==
    LET d == a.stop_latitude.num * b.stop_latitude.den
             - b.stop_latitude.num * a.stop_latitude.den
        absd == IF d < 0 THEN 0 - d ELSE d
    IN  absd <= eps * a.stop_latitude.den * b.stop_latitude.den

\* radius_neighbors: the rows within eps of row i, row i among them.
Neighborhood(rows, i, eps) == {j \in 1..Len(rows) : WithinEps(rows[i], rows[j], eps)}

\* core samples: at least min_samples neighbours
IsCore(rows, i, eps, minSamples) == Cardinality(Neighborhood(rows, i, eps)) >= minSamples

\* The depth-first growth of one cluster: the rows not yet labelled that are
\* reached from the core rows found so far.
RECURSIVE Grow(_, _, _, _, _, _)
Grow(rows, eps, minSamples, labels, seen, frontier) ==
    IF frontier = {} THEN seen
    ELSE LET new == {j \in 1..Len(rows) :
                        /\ j \notin seen
                        /\ labels[j] = NOISE
                        /\ \E i \in frontier : /\ IsCore(rows, i, eps, minSamples)
                                               /\ j \in Neighborhood(rows, i, eps)}
         IN  Grow(rows, eps, minSamples, labels, seen \cup new, new)

\* dbscan_inner: rows are visited in table order; an unlabelled core row
\* starts the next cluster, numbered from 0.
RECURSIVE DbscanInner(_, _, _, _, _, _)
DbscanInner(rows, eps, minSamples, i, labels, labelNum) ==
    IF i > Len(rows) THEN labels
    ELSE IF labels[i] /= NOISE \/ ~IsCore(rows, i, eps, minSamples)
         THEN DbscanInner(rows, eps, minSamples, i + 1, labels, labelNum)
         ELSE LET members == Grow(rows, eps, minSamples, labels, {i}, {i})
                  labelled == [j \in 1..Len(rows) |->
                                  IF j \in members THEN labelNum ELSE labels[j]]
              IN  DbscanInner(rows, eps, minSamples, i + 1, labelled, labelNum + 1)

\* DBSCAN(eps, min_samples, metric="haversine").fit_predict(coords)
FitPredict(rows, eps, minSamples) ==
    DbscanInner(rows, eps, minSamples, 1, [j \in 1..Len(rows) |-> NOISE], 0)

\* The same without the min_samples guard of lines 176-182.
ClusterStopsDbscan_NoGuard(frame, eps, minSamples, fitRaises) ==
    IF frame.rows = <<>>
    THEN [frame |-> WithCluster(frame, <<>>), fit_calls |-> 0, message |-> "empty"]
    ELSE IF fitRaises
         THEN [frame |-> WithCluster(frame, [j \in 1..Len(frame.rows) |-> FAILED]),
               fit_calls |-> 1, message |-> "dbscan_error"]
         ELSE [frame |-> WithCluster(frame, FitPredict(frame.rows, eps, minSamples)),
               fit_calls |-> 1, message |-> "none"]

\* cluster_stops_dbscan(stops_df, eps_rad, min_samples): the table with its
\* "cluster" column, the number of calls of fit_predict and the message
\* printed; fitRaises says whether fit_predict raises when it is called.
ClusterStopsDbscan(frame, eps, minSamples, fitRaises) ==
    IF frame.rows = <<>>
    THEN [frame |-> WithCluster(frame, <<>>), fit_calls |-> 0, message |-> "empty"]
    ELSE IF Len(frame.rows) < minSamples
         THEN [frame |-> WithCluster(frame, [j \in 1..Len(frame.rows) |-> NOISE]),
               fit_calls |-> 0, message |-> "fewer_than_min_samples"]
         ELSE IF fitRaises
              THEN [frame |-> WithCluster(frame, [j \in 1..Len(frame.rows) |-> FAILED]),
                    fit_calls |-> 1, message |-> "dbscan_error"]
              ELSE [frame |-> WithCluster(frame, FitPredict(frame.rows, eps, minSamples)),
                    fit_calls |-> 1, message |-> "none"]

\* ------------------------------------------------- create_cluster_summary_df
\* A filter that keeps the noise rows.
ActualClusterRows_KeepNoise(frame) == 1..Len(frame.rows)

\* clustered_stops_df[clustered_stops_df["cluster"] != -1]: the row numbers kept.
ActualClusterRows(frame) == {j \in 1..Len(frame.rows) : frame.cluster[j] /= NOISE}

ClusterIds(frame) == {frame.cluster[j] : j \in ActualClusterRows(frame)}

MembersOf(frame, c) == {j \in ActualClusterRows(frame) : frame.cluster[j] = c}

RECURSIVE SumOver(_, _, _)
SumOver(frame, members, field) ==
    IF members = {} THEN 0
    ELSE LET j == SetMin(members)
         IN  frame.rows[j][field] + SumOver(frame, members \ {j}, field)

\* One row of groupby("cluster").agg(aggregations).
SummaryRow(frame, c) ==
    [cluster_id |-> c,
     num_unique_ships |-> Cardinality({frame.rows[j].MMSI : j \in MembersOf(frame, c)}),
     total_stop_duration_hours |-> SumOver(frame, MembersOf(frame, c), "stop_duration_hours"),
     num_stops |-> Cardinality(MembersOf(frame, c))]

CreateClusterSummaryDf(frame) ==
    IF ~frame.has_cluster THEN <<>>
    ELSE IF ActualClusterRows(frame) = {} THEN <<>>
         ELSE LET ids == Ascending(ClusterIds(frame))
              IN  [k \in 1..Len(ids) |-> SummaryRow(frame, ids[k])]

\* ---------------------------------------------- parallel_polygon_processing
\* The absent geometry (port_polygon_wkt None).
NoGeometry == [kind |-> "None", points |-> {}]

\* lines 84-89: one task per cluster id of the rows kept, in key order.
PolygonTasks(frame) == Ascending(ClusterIds(frame))

\* MultiPoint(points).convex_hull.wkt on a meridian: a point or a line
\* between the two extreme latitudes.
ConvexHullWkt(points) ==
    IF Cardinality(points) = 1 THEN [kind |-> "POINT", points |-> points]
    ELSE [kind |-> "LINESTRING",
          points |-> {p \in points :
                         \/ \A q \in points : p.num * q.den <= q.num * p.den
                         \/ \A q \in points : p.num * q.den >= q.num * p.den}]

\* A coordinate pair with a missing member (NaN longitude or latitude).
NaN == [num |-> 0, den |-> 0]

\* pd.notna(lon) and pd.notna(lat)
NotNa(point) == point /= NaN

\* The same without the test of lines 14-18 for missing coordinates.
CalculateSingleClusterPolygon_NoNaNFilter(frame, c, hullRaises) ==
    LET points_for_hull == {frame.rows[j].stop_latitude : j \in MembersOf(frame, c)}
    IN  IF points_for_hull = {} \/ hullRaises
        THEN [cluster_id |-> c, port_polygon_wkt |-> NoGeometry]
        ELSE [cluster_id |-> c, port_polygon_wkt |-> ConvexHullWkt(points_for_hull)]

\* _calculate_single_cluster_polygon((cluster_id, group_data)); hullRaises says
\* whether the geometry library raises inside the try block.
CalculateSingleClusterPolygon(frame, c, hullRaises) ==
    LET points_for_hull == {frame.rows[j].stop_latitude :
                               j \in {m \in MembersOf(frame, c) :
                                         NotNa(frame.rows[m].stop_latitude)}}
    IN  IF points_for_hull = {} \/ hullRaises
        THEN [cluster_id |-> c, port_polygon_wkt |-> NoGeometry]
        ELSE [cluster_id |-> c, port_polygon_wkt |-> ConvexHullWkt(points_for_hull)]

\* ----------------------------------------------------------------- main
\* A merge that loses the rows whose geometry is missing.
MergeRow_DropMissing(srow, polygons) ==
    SelectSeq([k \in 1..Len(polygons) |->
                  [summary |-> srow, port_polygon_wkt |-> polygons[k].port_polygon_wkt,
                   key |-> polygons[k].cluster_id]],
              LAMBDA m : m.key = srow.cluster_id /\ m.port_polygon_wkt /= NoGeometry)

\* The rows of the right table matching one left row; a left row without a
\* match is kept once, with a missing geometry.
MergeRow(srow, polygons) ==
    LET matches == SelectSeq(polygons, LAMBDA prow : prow.cluster_id = srow.cluster_id)
    IN  IF matches = <<>>
        THEN <<[summary |-> srow, port_polygon_wkt |-> NoGeometry]>>
        ELSE [k \in 1..Len(matches) |->
                 [summary |-> srow, port_polygon_wkt |-> matches[k].port_polygon_wkt]]

\* summary_df.merge(polygons_df, on="cluster_id", how="left")
RECURSIVE MergeLeft(_, _)
MergeLeft(summary, polygons) ==
    IF summary = <<>> THEN <<>>
    ELSE MergeRow(Head(summary), polygons) \o MergeLeft(Tail(summary), polygons)

\* ------------------------------------------------------------------ state
VARIABLES
    \* the arguments of one call of process_single_mmsi_stops and its locals
    seg_pc, ship_data_df, ship_data, segment_id, processed_stops_list,
    \* the thresholds handed down by the caller and the size of the pools
    min_stop_duration_threshold, max_time_diff_within_stop_threshold, min_samples,
    num_processes,
    \* main: where it is, the ping table (grouped by vessel id) and the
    \* required columns the table lacks
    pc, df, missing_cols,
    \* get_significant_stops_parallel and its pool
    tasks, inqueue, running, outqueue, collected, failed, all_stops_dfs,
    \* the tables of main
    stops_df, clustered_stops_df, summary_df, polygons_df, summary_with_polygons,
    \* generate_port_polygons_parallel and its pool
    ptasks, pinqueue, prunning, poutqueue, results_list,
    \* observers: calls of DBSCAN.fit_predict, the files written, the messages printed
    dbscan_calls, exported, log

segVars == <<seg_pc, ship_data_df, ship_data, segment_id, processed_stops_list>>
paramVars == <<min_stop_duration_threshold, max_time_diff_within_stop_threshold, min_samples,
              num_processes>>
inputVars == <<df, missing_cols>>
poolVars == <<tasks, inqueue, running, outqueue, collected, failed, all_stops_dfs>>
tableVars == <<stops_df, clustered_stops_df, summary_df, polygons_df, summary_with_polygons>>
ppoolVars == <<ptasks, pinqueue, prunning, poutqueue, results_list>>
obsVars == <<dbscan_calls, exported, log>>
pipeVars == <<pc, inputVars, poolVars, tableVars, ppoolVars, obsVars>>
vars == <<segVars, paramVars, pipeVars>>

Vessels == 1..NumVessels

\* Rows of one vessel in file order.
PingRows(tsSeq, lat) ==
    [i \in 1..Len(tsSeq) |-> [row |-> i, Timestamp |-> tsSeq[i], Latitude |-> lat]]

\* Nothing has run yet.
PoolsAndTablesFresh ==
    /\ tasks = <<>> /\ inqueue = <<>> /\ running = {} /\ outqueue = <<>>
    /\ collected = <<>> /\ failed = {} /\ all_stops_dfs = <<>>
    /\ stops_df = EmptyFrame /\ clustered_stops_df = EmptyFrame
    /\ summary_df = <<>> /\ polygons_df = <<>> /\ summary_with_polygons = <<>>
    /\ ptasks = <<>> /\ pinqueue = <<>> /\ prunning = {} /\ poutqueue = <<>>
    /\ results_list = <<>>
    /\ dbscan_calls = 0 /\ exported = FALSE /\ log = <<>>

\* ---------------------------- process_single_mmsi_stops, called on its own
\* The vessel id used when process_single_mmsi_stops is called on its own.
SegMmsi == 1

\* Any timestamps, parsed or not, in any order.
SegInputs == {PingRows(ts, 0) : ts \in SeqsUpTo((0..SegMaxTime) \cup {NaT}, SegMaxPings)}

SegInit ==
    /\ seg_pc = "call"
    /\ ship_data_df \in SegInputs
    /\ ship_data = <<>>
    /\ segment_id = 0
    /\ processed_stops_list = <<>>
    /\ min_stop_duration_threshold \in 0..MaxMinDuration
    /\ max_time_diff_within_stop_threshold \in 0..MaxGap
    /\ min_samples = 1
    /\ num_processes = 1
    /\ pc = "idle"
    /\ df = [v \in Vessels |-> <<>>]
    /\ missing_cols = {}
    /\ PoolsAndTablesFresh

\* lines 20-22: an empty group returns an empty table.
SegEmpty ==
    /\ seg_pc = "call"
    /\ ship_data_df = <<>>
    /\ seg_pc' = "returned"
    /\ UNCHANGED <<ship_data_df, ship_data, segment_id, processed_stops_list>>
    /\ UNCHANGED <<paramVars, pipeVars>>

\* lines 24-33: copy, sort, time_diff, stop_segment_id, groupby.
SegSort ==
    /\ seg_pc = "call"
    /\ ship_data_df /= <<>>
    /\ ship_data' = WithSegmentIds(ship_data_df, max_time_diff_within_stop_threshold)
    /\ segment_id' = 1
    /\ seg_pc' = "loop"
    /\ UNCHANGED <<ship_data_df, processed_stops_list, paramVars, pipeVars>>

\* lines 35-82: one iteration of the loop over the segments.
SegLoop ==
    /\ seg_pc = "loop"
    /\ segment_id <= SetMax(SegmentIdsOf(ship_data))
    /\ processed_stops_list' =
           processed_stops_list \o
           StopsFrom(SegMmsi, ship_data, segment_id, segment_id, min_stop_duration_threshold)
    /\ segment_id' = segment_id + 1
    /\ UNCHANGED <<seg_pc, ship_data_df, ship_data, paramVars, pipeVars>>

\* line 83: the loop is over, the list becomes the returned table.
SegReturn ==
    /\ seg_pc = "loop"
    /\ segment_id > SetMax(SegmentIdsOf(ship_data))
    /\ seg_pc' = "returned"
    /\ UNCHANGED <<ship_data_df, ship_data, segment_id, processed_stops_list>>
    /\ UNCHANGED <<paramVars, pipeVars>>

SegNext == SegEmpty \/ SegSort \/ SegLoop \/ SegReturn

SpecSeg == SegInit /\ [][SegNext]_vars

\* ------------------------------------------------------------ the pipeline
\* The ping table after load_and_preprocess_data_parallel: per vessel a
\* position and up to MaxPings pings with parsed timestamps.
VesselInputs ==
    {PingRows(ts, lat) : ts \in SeqsUpTo(0..MaxGap, MaxPings), lat \in 0..MaxLat}

\* The columns the table may lack: none, one, or two.
MissingChoices == {{}, {"Timestamp"}, {"Ship type", "Navigational status"}}

Init ==
    /\ pc = "get_stops"
    /\ df \in [Vessels -> VesselInputs]
    /\ missing_cols \in MissingChoices
    /\ min_stop_duration_threshold \in 0..MaxMinDuration
    /\ max_time_diff_within_stop_threshold \in 0..MaxGap
    /\ min_samples \in 1..MaxMinSamples
    /\ num_processes \in 1..NumProcesses
    /\ seg_pc = "idle"
    /\ ship_data_df = <<>> /\ ship_data = <<>> /\ segment_id = 0
    /\ processed_stops_list = <<>>
    /\ PoolsAndTablesFresh

\* get_significant_stops_parallel, lines 106-113: a required column is
\* missing; the message names the columns and an empty table is returned.
MissingColumns ==
    /\ pc = "get_stops"
    /\ missing_cols /= {}
    /\ log' = Append(log, [msg |-> "missing_columns", cols |-> missing_cols])
    /\ stops_df' = EmptyFrame
    /\ pc' = "check_stops"
    /\ UNCHANGED <<segVars, paramVars, inputVars, poolVars, ppoolVars>>
    /\ UNCHANGED <<clustered_stops_df, summary_df, polygons_df, summary_with_polygons>>
    /\ UNCHANGED <<dbscan_calls, exported>>

\* lines 118-131: the task list is empty.
NoTasks ==
    /\ pc = "get_stops"
    /\ missing_cols = {}
    /\ StopTasks(df) = <<>>
    /\ log' = Append(log, [msg |-> "no_data", cols |-> {}])
    /\ stops_df' = EmptyFrame
    /\ pc' = "check_stops"
    /\ UNCHANGED <<segVars, paramVars, inputVars, poolVars, ppoolVars>>
    /\ UNCHANGED <<clustered_stops_df, summary_df, polygons_df, summary_with_polygons>>
    /\ UNCHANGED <<dbscan_calls, exported>>

\* lines 118-139: the tasks are handed to the pool.
StartStopsPool ==
    /\ pc = "get_stops"
    /\ missing_cols = {}
    /\ StopTasks(df) /= <<>>
    /\ tasks' = StopTasks(df)
    /\ inqueue' = StopTasks(df)
    /\ pc' = "stops_pool"
    /\ UNCHANGED <<segVars, paramVars, inputVars, tableVars, ppoolVars, obsVars>>
    /\ UNCHANGED <<running, outqueue, collected, failed, all_stops_dfs>>

\* An idle worker process takes the next task.
Dispatch ==
    /\ pc = "stops_pool"
    /\ inqueue /= <<>>
    /\ Cardinality(running) < num_processes
    /\ running' = running \cup {Head(inqueue)}
    /\ inqueue' = Tail(inqueue)
    /\ UNCHANGED <<segVars, paramVars, inputVars, tableVars, ppoolVars, obsVars>>
    /\ UNCHANGED <<pc, tasks, outqueue, collected, failed, all_stops_dfs>>

\* A worker finishes process_single_mmsi_stops and queues its table.
WorkerReturns(mmsi) ==
    /\ pc = "stops_pool"
    /\ mmsi \in running
    /\ running' = running \ {mmsi}
    /\ outqueue' = Append(outqueue,
           [mmsi |-> mmsi, ok |-> TRUE,
            result |-> ProcessSingleMmsiStops(mmsi, df[mmsi], min_stop_duration_threshold,
                                              max_time_diff_within_stop_threshold)])
    /\ UNCHANGED <<segVars, paramVars, inputVars, tableVars, ppoolVars, obsVars>>
    /\ UNCHANGED <<pc, tasks, inqueue, collected, failed, all_stops_dfs>>

\* process_single_mmsi_stops raises in the worker (it has no try block): the
\* pool queues the exception in place of a result.
WorkerRaises(mmsi) ==
    /\ pc = "stops_pool"
    /\ mmsi \in running
    /\ running' = running \ {mmsi}
    /\ failed' = failed \cup {mmsi}
    /\ outqueue' = Append(outqueue, [mmsi |-> mmsi, ok |-> FALSE, result |-> <<>>])
    /\ UNCHANGED <<segVars, paramVars, inputVars, tableVars, ppoolVars, obsVars>>
    /\ UNCHANGED <<pc, tasks, inqueue, collected, all_stops_dfs>>

\* lines 138-142: the loop takes the next result in arrival order.
CollectResult ==
    /\ pc = "stops_pool"
    /\ outqueue /= <<>>
    /\ Head(outqueue).ok
    /\ outqueue' = Tail(outqueue)
    /\ collected' = Append(collected, Head(outqueue).mmsi)
    /\ all_stops_dfs' = IF Head(outqueue).result /= <<>>
                        THEN Append(all_stops_dfs, Head(outqueue).result)
                        ELSE all_stops_dfs
    /\ UNCHANGED <<segVars, paramVars, inputVars, tableVars, ppoolVars, obsVars>>
    /\ UNCHANGED <<pc, tasks, inqueue, running, failed>>

\* The next result is an exception: imap_unordered re-raises it in the loop,
\* the with block terminates the pool and the exception leaves main.
CollectException ==
    /\ pc = "stops_pool"
    /\ outqueue /= <<>>
    /\ ~Head(outqueue).ok
    /\ inqueue' = <<>>
    /\ running' = {}
    /\ outqueue' = <<>>
    /\ pc' = "crashed"
    /\ UNCHANGED <<segVars, paramVars, inputVars, tableVars, ppoolVars, obsVars>>
    /\ UNCHANGED <<tasks, collected, failed, all_stops_dfs>>

\* A loop that ends as soon as no result is waiting.
AllResultsCollected_WhenQueueEmpty == outqueue = <<>>

\* The loop ends when it has taken one result per task.
AllResultsCollected == Len(collected) = Len(tasks)

\* lines 146-159: the pool is closed and the tables are concatenated.
StopsPoolDone ==
    /\ pc = "stops_pool"
    /\ AllResultsCollected
    /\ stops_df' = Frame(Concat(all_stops_dfs))
    /\ log' = IF all_stops_dfs = <<>>
              THEN Append(log, [msg |-> "no_significant_stops", cols |-> {}])
              ELSE log
    /\ pc' = "check_stops"
    /\ UNCHANGED <<segVars, paramVars, inputVars, poolVars, ppoolVars>>
    /\ UNCHANGED <<clustered_stops_df, summary_df, polygons_df, summary_with_polygons>>
    /\ UNCHANGED <<dbscan_calls, exported>>

\* main, lines 43 and 98-99: no stops, nothing to cluster.
MainNoStops ==
    /\ pc = "check_stops"
    /\ stops_df.rows = <<>>
    /\ log' = Append(log, [msg |-> "no_stops_to_cluster", cols |-> {}])
    /\ pc' = "done"
    /\ UNCHANGED <<segVars, paramVars, inputVars, poolVars, tableVars, ppoolVars>>
    /\ UNCHANGED <<dbscan_calls, exported>>

\* main, lines 43-46: cluster_stops_dbscan is called.
MainCallsCluster ==
    /\ pc = "check_stops"
    /\ stops_df.rows /= <<>>
    /\ pc' = "cluster"
    /\ UNCHANGED <<segVars, paramVars, inputVars, poolVars, tableVars, ppoolVars, obsVars>>

\* cluster_stops_dbscan: the column is added to the table it was given and
\* that table is returned.
ClusterStops ==
    /\ pc = "cluster"
    /\ \E fitRaises \in BOOLEAN :
          LET call == ClusterStopsDbscan(stops_df, EPS_KM, min_samples, fitRaises)
          IN  /\ stops_df' = call.frame
              /\ clustered_stops_df' = call.frame
              /\ dbscan_calls' = dbscan_calls + call.fit_calls
              /\ log' = IF call.message = "none" THEN log
                        ELSE Append(log, [msg |-> call.message, cols |-> {}])
    /\ pc' = "summary"
    /\ UNCHANGED <<segVars, paramVars, inputVars, poolVars, ppoolVars>>
    /\ UNCHANGED <<summary_df, polygons_df, summary_with_polygons, exported>>

\* main, lines 62-63 and 94-95: the summary; an empty one ends the run.
Summarize ==
    /\ pc = "summary"
    /\ summary_df' = CreateClusterSummaryDf(clustered_stops_df)
    /\ IF summary_df' = <<>>
       THEN /\ log' = Append(log, [msg |-> "no_summary", cols |-> {}])
            /\ pc' = "done"
       ELSE /\ log' = log
            /\ pc' = "get_polygons"
    /\ UNCHANGED <<segVars, paramVars, inputVars, poolVars, ppoolVars>>
    /\ UNCHANGED <<stops_df, clustered_stops_df, polygons_df, summary_with_polygons>>
    /\ UNCHANGED <<dbscan_calls, exported>>

\* generate_port_polygons_parallel, lines 73-102: the tasks are handed to the
\* pool; without rows or tasks an empty table is returned.
StartPolygonsPool ==
    /\ pc = "get_polygons"
    /\ ptasks' = PolygonTasks(clustered_stops_df)
    /\ pinqueue' = ptasks'
    /\ pc' = IF ptasks' = <<>> THEN "merge" ELSE "polygons_pool"
    /\ UNCHANGED <<segVars, paramVars, inputVars, poolVars, tableVars, obsVars>>
    /\ UNCHANGED <<prunning, poutqueue, results_list>>

PDispatch ==
    /\ pc = "polygons_pool"
    /\ pinqueue /= <<>>
    /\ Cardinality(prunning) < num_processes
    /\ prunning' = prunning \cup {Head(pinqueue)}
    /\ pinqueue' = Tail(pinqueue)
    /\ UNCHANGED <<segVars, paramVars, inputVars, poolVars, tableVars, obsVars>>
    /\ UNCHANGED <<pc, ptasks, poutqueue, results_list>>

\* A worker finishes _calculate_single_cluster_polygon; an error of the
\* geometry library is caught inside it and gives a missing geometry.
PWorkerReturns(c) ==
    /\ pc = "polygons_pool"
    /\ c \in prunning
    /\ prunning' = prunning \ {c}
    /\ \E hullRaises \in BOOLEAN :
          poutqueue' = Append(poutqueue,
                              CalculateSingleClusterPolygon(clustered_stops_df, c, hullRaises))
    /\ UNCHANGED <<segVars, paramVars, inputVars, poolVars, tableVars, obsVars>>
    /\ UNCHANGED <<pc, ptasks, pinqueue, results_list>>

\* lines 101-105: the loop takes the next dict in arrival order.
PCollectResult ==
    /\ pc = "polygons_pool"
    /\ poutqueue /= <<>>
    /\ poutqueue' = Tail(poutqueue)
    /\ results_list' = Append(results_list, Head(poutqueue))
    /\ UNCHANGED <<segVars, paramVars, inputVars, poolVars, tableVars, obsVars>>
    /\ UNCHANGED <<pc, ptasks, pinqueue, prunning>>

AllPolygonsCollected == Len(results_list) = Len(ptasks)

\* lines 111-117: the pool is closed, the dicts become the polygon table.
PolygonsPoolDone ==
    /\ pc = "polygons_pool"
    /\ AllPolygonsCollected
    /\ polygons_df' = results_list
    /\ pc' = "merge"
    /\ UNCHANGED <<segVars, paramVars, inputVars, poolVars, ppoolVars, obsVars>>
    /\ UNCHANGED <<stops_df, clustered_stops_df, summary_df, summary_with_polygons>>

\* main, lines 67-93: the left merge and the export; an empty polygon table
\* skips both.
MergeAndExport ==
    /\ pc = "merge"
    /\ IF polygons_df /= <<>>
       THEN /\ summary_with_polygons' = MergeLeft(summary_df, polygons_df)
            /\ exported' = TRUE
            /\ log' = log
       ELSE /\ summary_with_polygons' = summary_with_polygons
            /\ exported' = exported
            /\ log' = Append(log, [msg |-> "no_polygons", cols |-> {}])
    /\ pc' = "done"
    /\ UNCHANGED <<segVars, paramVars, inputVars, poolVars, ppoolVars>>
    /\ UNCHANGED <<stops_df, clustered_stops_df, summary_df, polygons_df, dbscan_calls>>

Next ==
    \/ MissingColumns
    \/ NoTasks
    \/ StartStopsPool
    \/ Dispatch
    \/ \E mmsi \in Vessels : WorkerReturns(mmsi)
    \/ \E mmsi \in Vessels : WorkerRaises(mmsi)
    \/ CollectResult
    \/ CollectException
    \/ StopsPoolDone
    \/ MainNoStops
    \/ MainCallsCluster
    \/ ClusterStops
    \/ Summarize
    \/ StartPolygonsPool
    \/ PDispatch
    \/ \E c \in ClusterIds(clustered_stops_df) : PWorkerReturns(c)
    \/ PCollectResult
    \/ PolygonsPoolDone
    \/ MergeAndExport

Spec == Init /\ [][Next]_vars

\* ----------------------------------------- main from line 43, on its own
\* A stop table as get_significant_stops_parallel returns it: row i is the
\* stop of vessel i, made of one ping (min_stop_duration 0).
StopTable(lats) ==
    Frame([i \in 1..Len(lats) |-> StopEvent(i, PingRows(<<0>>, lats[i]))])

ClusterInputs == {StopTable(lats) : lats \in SeqsUpTo(0..MaxLat, MaxStops)}

ClusterInit ==
    /\ pc = "check_stops"
    /\ min_stop_duration_threshold = 0
    /\ max_time_diff_within_stop_threshold = 0
    /\ min_samples \in 1..MaxMinSamples
    /\ num_processes \in 1..NumProcesses
    /\ df = [v \in Vessels |-> <<>>]
    /\ missing_cols = {}
    /\ seg_pc = "idle"
    /\ ship_data_df = <<>> /\ ship_data = <<>> /\ segment_id = 0
    /\ processed_stops_list = <<>>
    /\ \E table \in ClusterInputs :
          /\ stops_df = table
          /\ tasks = <<>> /\ inqueue = <<>> /\ running = {} /\ outqueue = <<>>
          /\ collected = <<>> /\ failed = {} /\ all_stops_dfs = <<>>
          /\ clustered_stops_df = EmptyFrame
          /\ summary_df = <<>> /\ polygons_df = <<>> /\ summary_with_polygons = <<>>
          /\ ptasks = <<>> /\ pinqueue = <<>> /\ prunning = {} /\ poutqueue = <<>>
          /\ results_list = <<>>
          /\ dbscan_calls = 0 /\ exported = FALSE /\ log = <<>>

ClusterNext ==
    \/ MainNoStops
    \/ MainCallsCluster
    \/ ClusterStops
    \/ Summarize
    \/ StartPolygonsPool
    \/ PDispatch
    \/ \E c \in ClusterIds(clustered_stops_df) : PWorkerReturns(c)
    \/ PCollectResult
    \/ PolygonsPoolDone
    \/ MergeAndExport

SpecCluster == ClusterInit /\ [][ClusterNext]_vars

\* ------------------------ generate_port_polygons_parallel, called on its own
\* The positions a stop of the table may have: missing, or one of two places.
PolyPoints == {NaN, Mean(<<0>>), Mean(<<MaxLat>>)}

\* The labels a stop of the table may carry.
PolyLabels == FAILED..MaxLabel

\* Row i is a stop of vessel i at the given position.
PolyRows(points) ==
    [i \in 1..Len(points) |->
        [StopEvent(i, PingRows(<<0>>, 0)) EXCEPT !.stop_latitude = points[i]]]

\* Any labelled stop table of up to PolyMaxStops stops.
LabelledTables ==
    {WithCluster(Frame(PolyRows(points)), labels) :
        <<points, labels>> \in
            UNION {[1..n -> PolyPoints] \X [1..n -> PolyLabels] : n \in 0..PolyMaxStops}}

PolygonsInit ==
    /\ pc = "get_polygons"
    /\ min_stop_duration_threshold = 0
    /\ max_time_diff_within_stop_threshold = 0
    /\ min_samples = 1
    /\ num_processes \in 1..NumProcesses
    /\ df = [v \in Vessels |-> <<>>]
    /\ missing_cols = {}
    /\ seg_pc = "idle"
    /\ ship_data_df = <<>> /\ ship_data = <<>> /\ segment_id = 0
    /\ processed_stops_list = <<>>
    /\ \E table \in LabelledTables :
          /\ stops_df = table
          /\ clustered_stops_df = table
          /\ tasks = <<>> /\ inqueue = <<>> /\ running = {} /\ outqueue = <<>>
          /\ collected = <<>> /\ failed = {} /\ all_stops_dfs = <<>>
          /\ summary_df = <<>> /\ polygons_df = <<>> /\ summary_with_polygons = <<>>
          /\ ptasks = <<>> /\ pinqueue = <<>> /\ prunning = {} /\ poutqueue = <<>>
          /\ results_list = <<>>
          /\ dbscan_calls = 0 /\ exported = FALSE /\ log = <<>>

\* The function has returned when pc = "merge".
PolygonsNext ==
    \/ StartPolygonsPool
    \/ PDispatch
    \/ \E c \in ClusterIds(clustered_stops_df) : PWorkerReturns(c)
    \/ PCollectResult
    \/ PolygonsPoolDone

SpecPolygons == PolygonsInit /\ [][PolygonsNext]_vars

\* ----------------------------------------------------- claims C1 and C2
\* Comparisons as pandas makes them: any comparison with NaT is false, and a
\* difference with NaT is missing.
GapExceeds(later, earlier, maxGap) ==
    later /= NaT /\ earlier /= NaT /\ later - earlier > maxGap
TimeGeq(a, b) == a /= NaT /\ b /= NaT /\ a >= b

Segmented == seg_pc \in {"loop", "returned"}

\* Every row of the input is in the sorted table exactly once, the table is in
\* timestamp order and the segment ids never decrease along it.
SegmentsPartition ==
    /\ Len(ship_data) = Len(ship_data_df)
    /\ \A r \in 1..Len(ship_data_df) :
          Cardinality({i \in 1..Len(ship_data) : ship_data[i].row = r}) = 1
    /\ \A i \in 1..Len(ship_data) :
          ship_data[i].Timestamp = ship_data_df[ship_data[i].row].Timestamp
    /\ \A i, j \in 1..Len(ship_data) :
          i < j => /\ ~TsBefore(ship_data[j].Timestamp, ship_data[i].Timestamp)
                   /\ ship_data[i].stop_segment_id <= ship_data[j].stop_segment_id

NewSegmentAt(i) ==
    i = 1 \/ ship_data[i].stop_segment_id /= ship_data[i - 1].stop_segment_id

\* C1: after sorting, the segment ids partition the pings into contiguous runs
\* in timestamp order, and a new segment starts at ping i exactly when i is the
\* first ping or timestamp[i] - timestamp[i-1] > max gap (an equal gap does not
\* split).
C1_SegmentBoundaries ==
    Segmented =>
        /\ SegmentsPartition
        /\ \A i \in 1..Len(ship_data) :
              NewSegmentAt(i) <=>
                  \/ i = 1
                  \/ GapExceeds(ship_data[i].Timestamp, ship_data[i - 1].Timestamp,
                                max_time_diff_within_stop_threshold)

\* What the code does instead: a row whose own or whose predecessor's
\* timestamp is missing starts a segment too.
C1_BoundariesWithMissingTimestamps ==
    Segmented =>
        /\ SegmentsPartition
        /\ \A i \in 1..Len(ship_data) :
              NewSegmentAt(i) <=>
                  \/ i = 1
                  \/ ship_data[i].Timestamp = NaT
                  \/ ship_data[i - 1].Timestamp = NaT
                  \/ GapExceeds(ship_data[i].Timestamp, ship_data[i - 1].Timestamp,
                                max_time_diff_within_stop_threshold)

\* The rows of segment s of the sorted table, read off the state.
RowsOfSegment(s) == {i \in 1..Len(ship_data) : ship_data[i].stop_segment_id = s}
FirstRow(s) == SetMin(RowsOfSegment(s))
LastRow(s) == SetMax(RowsOfSegment(s))
\* last timestamp minus first timestamp, zero for a one-ping segment
SegmentDuration(s) ==
    IF FirstRow(s) = LastRow(s) THEN 0
    ELSE ship_data[LastRow(s)].Timestamp - ship_data[FirstRow(s)].Timestamp
KeptSegments ==
    {s \in SegmentIdsOf(ship_data) : SegmentDuration(s) >= min_stop_duration_threshold}
\* the k-th kept segment, in segment order
KeptSegment(k) ==
    CHOOSE s \in KeptSegments : Cardinality({t \in KeptSegments : t <= s}) = k

\* One stop per kept segment and none for any other, in segment order.
StopsAreKeptSegments ==
    /\ Len(processed_stops_list) = Cardinality(KeptSegments)
    /\ \A k \in 1..Len(processed_stops_list) :
          LET s == KeptSegment(k)
              stop == processed_stops_list[k]
          IN  /\ stop.stop_start_time = ship_data[FirstRow(s)].Timestamp
              /\ stop.stop_end_time = ship_data[LastRow(s)].Timestamp
              /\ stop.num_pings_in_stop = Cardinality(RowsOfSegment(s))
              /\ stop.stop_duration_hours = SegmentDuration(s)

\* C2: a stop is emitted for a segment iff its duration (last minus first
\* timestamp, zero for one ping) >= min_stop_duration, the boundary included;
\* every emitted stop has end_time >= start_time and ping_count >= 1.
C2_KeptIffDuration ==
    seg_pc = "returned" =>
        /\ StopsAreKeptSegments
        /\ \A k \in 1..Len(processed_stops_list) :
              /\ TimeGeq(processed_stops_list[k].stop_end_time,
                         processed_stops_list[k].stop_start_time)
              /\ processed_stops_list[k].num_pings_in_stop >= 1

\* What the code does instead: a stop made of one ping without a timestamp
\* has neither a start nor an end time.
C2_KeptIffDurationOrMissing ==
    seg_pc = "returned" =>
        /\ StopsAreKeptSegments
        /\ \A k \in 1..Len(processed_stops_list) :
              LET stop == processed_stops_list[k]
              IN  /\ \/ TimeGeq(stop.stop_end_time, stop.stop_start_time)
                     \/ /\ stop.stop_start_time = NaT
                        /\ stop.stop_end_time = NaT
                        /\ stop.num_pings_in_stop = 1
                  /\ stop.num_pings_in_stop >= 1

\* ------------------------------------------------------- claims C3 to C10
Messages == {log[i].msg : i \in 1..Len(log)}

\* C3: no row of the cluster summary or of the polygon table has cluster id
\* -1 (noise) or -2 (clustering failed), also when every stop carries -2.
C3_NoNoiseOrSentinelRows ==
    /\ \A i \in 1..Len(summary_df) : summary_df[i].cluster_id \notin {NOISE, FAILED}
    /\ \A i \in 1..Len(results_list) : results_list[i].cluster_id \notin {NOISE, FAILED}
    /\ \A i \in 1..Len(polygons_df) : polygons_df[i].cluster_id \notin {NOISE, FAILED}

\* The run in which the worker results arrive in task order and nothing raises.
RECURSIVE StopsInTaskOrder(_)
StopsInTaskOrder(ts) ==
    IF ts = <<>> THEN <<>>
    ELSE ProcessSingleMmsiStops(Head(ts), df[Head(ts)], min_stop_duration_threshold,
                                max_time_diff_within_stop_threshold)
         \o StopsInTaskOrder(Tail(ts))
ReferenceClustered ==
    ClusterStopsDbscan(Frame(StopsInTaskOrder(tasks)), EPS_KM, min_samples, FALSE).frame
LabelledStops(frame) ==
    {[stop |-> frame.rows[j], cluster |-> frame.cluster[j]] : j \in 1..Len(frame.rows)}
ReferencePolygons ==
    {CalculateSingleClusterPolygon(ReferenceClustered, c, FALSE) :
        c \in ClusterIds(ReferenceClustered)}
NothingRaised ==
    /\ failed = {}
    /\ "dbscan_error" \notin Messages
    /\ \A i \in 1..Len(polygons_df) : polygons_df[i].port_polygon_wkt /= NoGeometry

\* C4: two runs on the same pings and thresholds that differ only in the
\* arrival order of the worker results end with the same labelled stops, the
\* same summary rows and the same polygons (here: the same as the run whose
\* results arrive in task order).
C4_SchedulingIndependent ==
    (pc = "done" /\ clustered_stops_df.has_cluster /\ NothingRaised) =>
        /\ LabelledStops(clustered_stops_df) = LabelledStops(ReferenceClustered)
        /\ Range(summary_df) = Range(CreateClusterSummaryDf(ReferenceClustered))
        /\ polygons_df /= <<>> => Range(polygons_df) = ReferencePolygons

ClusteringBegun ==
    \/ pc \in {"cluster", "summary", "get_polygons", "polygons_pool", "merge"}
    \/ dbscan_calls > 0
    \/ clustered_stops_df.has_cluster
SummaryOrPolygonsBegun ==
    \/ pc \in {"get_polygons", "polygons_pool", "merge"}
    \/ summary_df /= <<>> \/ ptasks /= <<>> \/ prunning /= {} \/ poutqueue /= <<>>
    \/ results_list /= <<>>

\* C5: clustering does not begin before every per-vessel task has completed
\* and its result has been collected; neither the summary nor any polygon task
\* begins before clustering has completed and every stop has its label.
C5_StagesInCausalOrder ==
    /\ ClusteringBegun =>
          /\ inqueue = <<>> /\ running = {} /\ outqueue = <<>>
          /\ Range(collected) = Range(tasks)
          /\ Len(collected) = Len(tasks)
          /\ Len(stops_df.rows) = Len(Concat(all_stops_dfs))
    /\ SummaryOrPolygonsBegun =>
          /\ pc /= "cluster"
          /\ clustered_stops_df.has_cluster
          /\ Len(clustered_stops_df.cluster) = Len(clustered_stops_df.rows)
          /\ clustered_stops_df.rows = stops_df.rows

C5_Witness ==
    /\ pc = "polygons_pool" /\ prunning /= {}
    /\ Len(tasks) >= 2 /\ Len(clustered_stops_df.rows) >= 2

\* C6: in both fan-outs a task that fails does not abort its siblings: every
\* other task completes and contributes its result, the failed one contributes
\* an empty or null result, and the pipeline goes on to the next stage.
C6_SiblingsSurvive ==
    /\ pc /= "crashed"
    /\ (failed /= {} /\ pc \notin {"get_stops", "stops_pool"}) =>
          Range(tasks) \ failed \subseteq Range(collected)
    /\ pc \in {"merge", "done"} /\ ptasks /= <<>> =>
          \A k \in 1..Len(ptasks) :
              \E i \in 1..Len(polygons_df) : polygons_df[i].cluster_id = ptasks[k]

\* C7: a non-empty stop table with fewer stops than min_samples gets the label
\* -1 on every stop and the clustering algorithm is not called; whatever the
\* size of the table, every stop ends with exactly one label.
C7_FewStopsAllNoise ==
    clustered_stops_df.has_cluster =>
        /\ Len(clustered_stops_df.cluster) = Len(clustered_stops_df.rows)
        /\ Len(clustered_stops_df.rows) < min_samples =>
              /\ \A j \in 1..Len(clustered_stops_df.rows) :
                    clustered_stops_df.cluster[j] = NOISE
              /\ dbscan_calls = 0

C7_Witness ==
    /\ pc = "summary"
    /\ clustered_stops_df.has_cluster
    /\ Len(clustered_stops_df.rows) >= 1
    /\ Len(clustered_stops_df.rows) < min_samples

\* C8: when the clustering call raises, every stop is labelled -2, the call
\* returns normally and the pipeline goes on, and the failed batch is not
\* reported downstream as a cluster (no summary row, nothing exported).
C8_FailedBatchNotReported ==
    "dbscan_error" \in Messages =>
        /\ pc /= "crashed"
        /\ \A j \in 1..Len(clustered_stops_df.rows) : clustered_stops_df.cluster[j] = FAILED
        /\ summary_df = <<>>
        /\ ~exported

\* C9: when the summary is not empty, every cluster id of the summary is in
\* the merged table handed to the export exactly once, with or without a
\* geometry.
C9_MergeKeepsEverySummaryRow ==
    exported =>
        /\ \A i \in 1..Len(summary_df) :
              Cardinality({k \in 1..Len(summary_with_polygons) :
                  summary_with_polygons[k].summary.cluster_id = summary_df[i].cluster_id}) = 1
        /\ Len(summary_with_polygons) = Len(summary_df)

C9_Witness ==
    /\ exported
    /\ Len(summary_df) >= 2
    /\ \E k \in 1..Len(summary_with_polygons) :
          summary_with_polygons[k].port_polygon_wkt = NoGeometry
    /\ \E k \in 1..Len(summary_with_polygons) :
          summary_with_polygons[k].port_polygon_wkt /= NoGeometry

\* C10: when a required column is missing, stop detection fails as a whole
\* and names the missing columns: no task is handed to the pool, and the run
\* does not end like the run that found no stops.
C10_MissingColumnsFatal ==
    missing_cols /= {} =>
        /\ tasks = <<>> /\ inqueue = <<>> /\ running = {} /\ collected = <<>>
        /\ pc /= "get_stops" =>
              \E i \in 1..Len(log) : log[i].msg = "missing_columns" /\ log[i].cols = missing_cols
        /\ pc /= "done"
        /\ "no_stops_to_cluster" \notin Messages

\* ------------------------------------------------------------- claim C11
\* get_significant_stops_parallel has returned to main.
StopsReturned ==
    pc \in {"check_stops", "cluster", "summary", "get_polygons", "polygons_pool",
            "merge", "done"}

\* cluster_stops_dbscan has returned to main.
ClusterReturned == pc \in {"summary", "get_polygons", "polygons_pool", "merge", "done"}

\* Every stop of a labelled table is noise.
AllNoise(frame) ==
    frame.has_cluster /\ \A j \in 1..Len(frame.rows) : frame.cluster[j] = NOISE

\* No stage after the stop detection has run or written anything.
NothingAfterStops ==
    /\ clustered_stops_df = EmptyFrame /\ dbscan_calls = 0
    /\ summary_df = <<>> /\ ptasks = <<>> /\ results_list = <<>>
    /\ polygons_df = <<>> /\ summary_with_polygons = <<>> /\ ~exported

\* No stage after the summary has run or written anything.
NothingAfterSummary ==
    /\ ptasks = <<>> /\ pinqueue = <<>> /\ prunning = {} /\ poutqueue = <<>>
    /\ results_list = <<>> /\ polygons_df = <<>>
    /\ summary_with_polygons = <<>> /\ ~exported

\* C11: an empty intermediate result is passed on as an empty table and ends
\* the run without a crash and without any later stage being run on it:
\* (a) with an empty stop table (no pings, no kept stops) main goes straight
\*     to its end, and cluster_stops_dbscan, were it called on that table,
\*     would return an empty labelled table without calling DBSCAN;
\* (b) with all stops labelled noise create_cluster_summary_df returns an
\*     empty table, generate_port_polygons_parallel would have no task and
\*     return an empty table, and main ends without starting the polygon pool;
\* (c) with an empty summary or an empty polygon table nothing is merged or
\*     exported.
C11_EmptyResultsShortCircuit ==
    /\ (StopsReturned /\ stops_df.rows = <<>>) =>
          /\ pc \in {"check_stops", "done"}
          /\ NothingAfterStops
          /\ \A ms \in 1..MaxMinSamples, fitRaises \in BOOLEAN :
                LET call == ClusterStopsDbscan(stops_df, EPS_KM, ms, fitRaises)
                IN  /\ call.frame.rows = <<>> /\ call.frame.cluster = <<>>
                    /\ call.frame.has_cluster /\ call.fit_calls = 0
                    /\ CreateClusterSummaryDf(call.frame) = <<>>
                    /\ PolygonTasks(call.frame) = <<>>
    /\ (ClusterReturned /\ AllNoise(clustered_stops_df)) =>
          /\ pc \in {"summary", "done"}
          /\ CreateClusterSummaryDf(clustered_stops_df) = <<>>
          /\ PolygonTasks(clustered_stops_df) = <<>>
          /\ summary_df = <<>>
          /\ NothingAfterSummary
    /\ (pc \in {"get_polygons", "polygons_pool", "merge"}) => summary_df /= <<>>
    /\ (pc = "done" /\ (summary_df = <<>> \/ polygons_df = <<>>)) =>
          summary_with_polygons = <<>> /\ ~exported
    /\ (pc = "crashed") => ~StopsReturned /\ NothingAfterStops

\* A run over two vessels that ended with every stop labelled noise.
C11_Witness ==
    /\ pc = "done"
    /\ Len(stops_df.rows) >= 2
    /\ AllNoise(clustered_stops_df)
    /\ summary_df = <<>>
    /\ "no_summary" \in Messages

\* A run that ended with no stop kept although a vessel had pings.
C11_WitnessNoStops ==
    /\ pc = "done"
    /\ stops_df.rows = <<>>
    /\ tasks /= <<>>
    /\ "no_stops_to_cluster" \in Messages

\* ------------------------------------------------------------- claim C12
\* The distinct labels of a table other than the noise label.
NonNoiseIds(frame) == {frame.cluster[j] : j \in 1..Len(frame.rows)} \ {NOISE}

\* Every member stop of cluster c lacks a coordinate.
AllCoordinatesMissing(frame, c) ==
    \A j \in 1..Len(frame.rows) :
        frame.cluster[j] = c => frame.rows[j].stop_latitude = NaN

ClusterCalled == ClusterReturned /\ stops_df.rows /= <<>>

\* C13: after cluster_stops_dbscan has returned, the stop table of the caller
\* is as the stop detection made it: it has no "cluster" column.
C13_StopTableUnchanged ==
    ClusterCalled => ~stops_df.has_cluster /\ stops_df.cluster = <<>>

\* What holds instead: the table returned is the caller's own table, which
\* now carries one label per stop.
C13_StopTableIsLabelledInPlace ==
    ClusterCalled =>
        /\ stops_df = clustered_stops_df
        /\ stops_df.has_cluster
        /\ Len(stops_df.cluster) = Len(stops_df.rows)

\* ------------------------------------------------------------- claim C14
\* The vessel ids with at least one ping in the table.
VesselsWithPings == {v \in Vessels : df[v] /= <<>>}

\* The stop events of one vessel.
StopsOf(v) ==
    ProcessSingleMmsiStops(v, df[v], min_stop_duration_threshold,
                           max_time_diff_within_stop_threshold)

\* The number of times e occurs in a sequence.
Count(seq, e) == Cardinality({i \in 1..Len(seq) : seq[i] = e})

\* Two sequences hold the same elements the same number of times.
SameBag(s, t) ==
    /\ Len(s) = Len(t)
    /\ \A e \in Range(s) \cup Range(t) : Count(s, e) = Count(t, e)

\* The pool of get_significant_stops_parallel ran and its loop ended normally.
FanOutFinished == StopsReturned /\ tasks /= <<>>

\* C14: there is exactly one task per vessel id with pings; no result is
\* collected twice; and once the fan-out has finished, whatever the pool size
\* and the arrival order, every task's result was collected exactly once and
\* the stop table returned holds the stop events of all vessels, each as often
\* as its vessel produced it and each under the vessel id of its task.
C14_StopTableIsUnionOfVesselStops ==
    /\ tasks /= <<>> =>
          /\ Range(tasks) = VesselsWithPings
          /\ Len(tasks) = Cardinality(VesselsWithPings)
    /\ \A v \in Vessels : Count(collected, v) <= 1
    /\ Range(collected) \subseteq Range(tasks)
    /\ FanOutFinished =>
          /\ \A v \in VesselsWithPings : Count(collected, v) = 1
          /\ SameBag(stops_df.rows, StopsInTaskOrder(tasks))
          /\ \A j \in 1..Len(stops_df.rows) :
                /\ stops_df.rows[j].MMSI \in Range(tasks)
                /\ stops_df.rows[j] \in Range(StopsOf(stops_df.rows[j].MMSI))

\* The pool has finished over all the vessels, the results came in another
\* order than the tasks, and one vessel contributed two stops.
C14_Witness ==
    /\ FanOutFinished
    /\ Len(tasks) = NumVessels
    /\ collected /= tasks
    /\ \E v \in Vessels : Len(StopsOf(v)) >= 2
    /\ Len(stops_df.rows) >= 3

====
